---- MODULE Spec2Model ----
(***************************************************************************)
(* Model of sudoku_ac3.py: the CSP data model, AC3 / Revise, and the MRV   *)
(* backtracking search driven by main.  The Sudoku instance (81 cells,     *)
(* digits 1..9) is scaled down to NumVars variables over NumVals values;   *)
(* the neighbour relation is any symmetric, irreflexive relation, as       *)
(* parse_sudoku builds one (row, column and box peers).                    *)
(***************************************************************************)
EXTENDS Integers, Sequences, FiniteSets, TLC

\* Size of the scaled-down instance main solves, and of the models AC3 and
\* backtrack are called on directly.
NumVars == 4
NumVals == 3
NumDirectVars == 3

\* csp.variables, in list order (the variables of a model are the DOMAIN of
\* its domains and neighbors maps), and the value range of a blank cell.
Vars == 1..NumVars
DirectVars == 1..NumDirectVars
Vals == 1..NumVals

\* select_unassigned_variable's default=None.
None == 0

VARIABLES
    neighbors,      \* csp.neighbors: variable -> set of variables (never mutated)
    initial,        \* the domains of the model as constructed (the solve's input)
    domains,        \* csp.domains of the model AC3 is called on (mutated in place)
    queue,          \* AC3's deque of arcs <<xi, xj>>
    step,           \* AC3's step counter
    pc,             \* position of the running code
    ctx,            \* who called AC3: "main", "backtrack", or a direct call
    is_consistent,  \* the flag AC3 returned
    stack,          \* one frame per active call of backtrack
    solved,         \* backtrack's / main's outcome: TRUE when a model is returned
    result,         \* the returned model's domains (<<>> until then / on failure)
    firstRun,       \* direct double call of AC3: what the first call left
    target          \* identity of the CSP object whose domains AC3 mutates

vars == <<neighbors, initial, domains, queue, step, pc, ctx, is_consistent,
          stack, solved, result, firstRun, target>>

-----------------------------------------------------------------------------
\* Pure helpers of the source.

\* Variant: `y != xj`, a value compared with a variable's name, which
\* always differ.
SatisfiesVsName(x, y) == TRUE

\* The constraint tested at line 117: y != x.
Satisfies(x, y) == y # x

\* Variant: `not all(...)` at line 117, a value of xi removed as soon as one
\* value of xj clashes with it.
ToRemoveOnAnyClash(dom, xi, xj) ==
    {x \in dom[xi] : \E y \in dom[xj] : ~ Satisfies(x, y)}

\* Revise, lines 113-118: the values of xi with no supporting value in xj.
ToRemove(dom, xi, xj) ==
    {x \in dom[xi] : ~ \E y \in dom[xj] : Satisfies(x, y)}

\* Variant: the domain is rebuilt from the full range instead of shrunk in
\* place.
ReviseFromFullRange(dom, xi, xj) ==
    [dom EXCEPT ![xi] = Vals \ ToRemove(dom, xi, xj)]

\* Revise, lines 119-123: the domains after csp.domains[xi] -= to_remove.
Revise(dom, xi, xj) ==
    [dom EXCEPT ![xi] = @ \ ToRemove(dom, xi, xj)]

\* Variant: Revise reports a revision whether or not it removed a value.
RevisedAlways(dom, xi, xj) == TRUE

\* Revise's return value.
Revised(dom, xi, xj) == ToRemove(dom, xi, xj) # {}

\* is_solved, line 132.
is_solved(dom) == \A v \in DOMAIN dom : Cardinality(dom[v]) = 1

\* Variant: a minimum search that keeps the last minimum (`<=` in place of
\* `<` when comparing with the best so far).
SelectLastMinimum(dom) ==
    LET unassigned == {v \in DOMAIN dom : Cardinality(dom[v]) > 1}
    IN  IF unassigned = {} THEN None
        ELSE CHOOSE v \in unassigned :
                \A w \in unassigned :
                    \/ Cardinality(dom[v]) < Cardinality(dom[w])
                    \/ Cardinality(dom[v]) = Cardinality(dom[w]) /\ v >= w

\* Variant: `len(csp.domains[v]) >= 1`, assigned variables kept among the
\* candidates.
SelectFromAssignedToo(dom) ==
    LET candidates == {v \in DOMAIN dom : Cardinality(dom[v]) >= 1}
    IN  IF candidates = {} THEN None
        ELSE CHOOSE v \in candidates :
                \A w \in candidates :
                    \/ Cardinality(dom[v]) < Cardinality(dom[w])
                    \/ Cardinality(dom[v]) = Cardinality(dom[w]) /\ v <= w

\* select_unassigned_variable, lines 141-143: min() keeps the first minimum
\* in csp.variables order; None when unassigned is empty.
select_unassigned_variable(dom) ==
    LET unassigned == {v \in DOMAIN dom : Cardinality(dom[v]) > 1}
    IN  IF unassigned = {} THEN None
        ELSE CHOOSE v \in unassigned :
                \A w \in unassigned :
                    \/ Cardinality(dom[v]) < Cardinality(dom[w])
                    \/ Cardinality(dom[v]) = Cardinality(dom[w]) /\ v <= w

\* Variant: the for loop ends after its first value (`return False`
\* indented into the loop body).
FirstOnly(S) ==
    IF S = {} THEN <<>> ELSE <<CHOOSE x \in S : \A y \in S : x <= y>>

\* sorted(csp.domains[var]), line 159: ascending.
RECURSIVE sorted(_)
sorted(S) ==
    IF S = {} THEN <<>>
    ELSE LET m == CHOOSE x \in S : \A y \in S : x <= y
         IN  <<m>> \o sorted(S \ {m})

\* Iterating a Python set visits its elements in an unspecified order:
\* every enumeration of S without repetition.
Orders(S) ==
    {s \in [1..Cardinality(S) -> S] : \A i, j \in 1..Cardinality(S) : s[i] = s[j] => i = j}

\* AC3, lines 82-84: for xi in csp.variables (list order), for xj in
\* csp.neighbors[xi] (set order): queue.append((xi, xj)).
RECURSIVE InitialQueues(_, _)
InitialQueues(nbr, i) ==
    IF i \notin DOMAIN nbr THEN {<<>>}
    ELSE {[k \in 1..Len(o) |-> <<i, o[k]>>] \o rest :
             o \in Orders(nbr[i]), rest \in InitialQueues(nbr, i + 1)}

\* Variant: re-enqueue from every neighbor of xi, xj included.
RequeueAll(nbr, xi, xj) == nbr[xi]

\* Variant: nothing is re-enqueued after a Revise.
RequeueNone(nbr, xi, xj) == {}

\* AC3, lines 98-100: the neighbours xk of xi with xk != xj.
Requeue(nbr, xi, xj) == nbr[xi] \ {xj}

\* The arcs <<xk, xi>> appended at lines 98-100, in any set order.
RequeueSeqs(nbr, xi, xj) ==
    {[k \in 1..Len(o) |-> <<o[k], xi>>] : o \in Orders(Requeue(nbr, xi, xj))}

\* The directed arcs of a model: the queue of lines 82-84 as a set.
Arcs(nbr) == {a \in (DOMAIN nbr) \X (DOMAIN nbr) : a[2] \in nbr[a[1]]}

\* Cap of the step counter of one AC3 call: an arc <<xk, xi>> is queued once
\* at the start and once more per shrinking Revise of xi.
MaxSteps(nbr) == Cardinality(Arcs(nbr)) * NumVals + 1

-----------------------------------------------------------------------------
\* The code as functions of the model, every set iterated in ascending
\* order: one of the runs the actions below allow.

\* Lines 82-84 with each neighbors set iterated in ascending order.
RECURSIVE AscendingQueue(_, _)
AscendingQueue(nbr, i) ==
    IF i \notin DOMAIN nbr THEN <<>>
    ELSE [k \in 1..Cardinality(nbr[i]) |-> <<i, sorted(nbr[i])[k]>>]
            \o AscendingQueue(nbr, i + 1)

\* Lines 89-102: the while loop of AC3 on queue q; the flag and the domains.
RECURSIVE AC3Loop(_, _, _)
AC3Loop(nbr, dom, q) ==
    IF q = <<>> THEN [flag |-> TRUE, domains |-> dom]
    ELSE LET xi == Head(q)[1]
             xj == Head(q)[2]
             revisedDom == Revise(dom, xi, xj)
             xks == sorted(Requeue(nbr, xi, xj))
         IN  IF Revised(dom, xi, xj)
             THEN IF revisedDom[xi] = {}
                  THEN [flag |-> FALSE, domains |-> revisedDom]
                  ELSE AC3Loop(nbr, revisedDom,
                               Tail(q) \o [k \in 1..Len(xks) |-> <<xks[k], xi>>])
             ELSE AC3Loop(nbr, dom, Tail(q))

\* AC3(csp), lines 71-102.
AC3(nbr, dom) == AC3Loop(nbr, dom, AscendingQueue(nbr, 1))

Failure == [solved |-> FALSE, result |-> <<>>]

\* backtrack(csp), lines 145-168, and its for loop over the sorted values.
RECURSIVE backtrack(_, _), TryValues(_, _, _, _)
backtrack(nbr, dom) ==
    LET var == select_unassigned_variable(dom)
    IN  IF is_solved(dom) THEN [solved |-> TRUE, result |-> dom]
        ELSE IF var = None THEN Failure
        ELSE TryValues(nbr, dom, var, sorted(dom[var]))

TryValues(nbr, dom, var, values) ==
    IF values = <<>> THEN Failure
    ELSE LET revised == AC3(nbr, [dom EXCEPT ![var] = {Head(values)}])
             res == IF revised.flag THEN backtrack(nbr, revised.domains) ELSE Failure
         IN  IF res.solved THEN res
             ELSE TryValues(nbr, dom, var, Tail(values))

\* main, lines 198-214: the outcome of the solve.
main(nbr, dom) ==
    LET revised == AC3(nbr, dom)
    IN  IF ~ revised.flag THEN Failure
        ELSE IF is_solved(revised.domains)
        THEN [solved |-> TRUE, result |-> revised.domains]
        ELSE backtrack(nbr, revised.domains)

-----------------------------------------------------------------------------
\* Models the program is started on.

\* Symmetric, irreflexive neighbour relations (parse_sudoku, lines 50-67).
Topologies(V) ==
    {nb \in [V -> SUBSET V] :
        \A v, w \in V : v \notin nb[v] /\ (w \in nb[v] <=> v \in nb[w])}

\* parse_sudoku, lines 28 and 42-45: a clue's singleton or the full range.
ParsedDomains(V) == [V -> {Vals} \cup {{x} : x \in Vals}]

\* Any domain map a caller can hand to CSP(variables, domains, neighbors).
AnyDomains(V) == [V -> SUBSET Vals]

\* The models the solve path accepts in general: every domain non-empty
\* (a cell of a larger grid whose clues already excluded some values).
NonEmptyDomains(V) == [V -> (SUBSET Vals) \ {{}}]

NoResult == <<>>

-----------------------------------------------------------------------------
\* AC3

\* Lines 80-88: build the queue of all arcs, step = 0.
AC3Init ==
    /\ pc = "AC3"
    /\ queue' \in InitialQueues(neighbors, 1)
    /\ step' = 0
    /\ pc' = "AC3_loop"
    /\ UNCHANGED <<neighbors, initial, domains, ctx, is_consistent, stack,
                   solved, result, firstRun, target>>

\* The queue without its i-th arc.
Without(q, i) == SubSeq(q, 1, i - 1) \o SubSeq(q, i + 1, Len(q))

\* Variant: the emptied domain goes unnoticed.
EmptiedUnnoticed(dom, xi) == FALSE

\* Line 95: `if not csp.domains[xi]`.
Emptied(dom, xi) == dom[xi] = {}

\* Revise mutates csp.domains[xi] in place (line 120): every frame holding
\* the object AC3 was called on sees the new domains.
InPlace(frames, id, dom) ==
    [k \in 1..Len(frames) |->
        IF frames[k].id = id THEN [frames[k] EXCEPT !.csp = dom] ELSE frames[k]]

\* Lines 89-101: one iteration of the while loop, taking the i-th arc of
\* the queue (popleft takes the first).
AC3Process(i) ==
    /\ pc = "AC3_loop"
    /\ queue # <<>>
    /\ step < MaxSteps(neighbors)
    /\ LET xi == queue[i][1]
           xj == queue[i][2]
           revisedDom == Revise(domains, xi, xj)
       IN  /\ step' = step + 1
           /\ IF Revised(domains, xi, xj)
              THEN /\ domains' = revisedDom
                   /\ IF Emptied(revisedDom, xi)
                      THEN /\ queue' = Without(queue, i)
                           /\ is_consistent' = FALSE
                           /\ pc' = "AC3_return"
                      ELSE /\ \E app \in RequeueSeqs(neighbors, xi, xj) :
                                 queue' = Without(queue, i) \o app
                           /\ UNCHANGED <<is_consistent, pc>>
              ELSE /\ queue' = Without(queue, i)
                   /\ UNCHANGED <<domains, is_consistent, pc>>
    /\ stack' = InPlace(stack, target, domains')
    /\ UNCHANGED <<neighbors, initial, ctx, solved, result, firstRun, target>>

\* Line 90: xi, xj = queue.popleft().
AC3Step == AC3Process(1)

\* The same iteration with the arc taken from any place of the worklist.
AC3StepAnyOrder == \E i \in 1..Len(queue) : AC3Process(i)

\* Line 102: the queue is empty, return True.
AC3Return ==
    /\ pc = "AC3_loop"
    /\ queue = <<>>
    /\ is_consistent' = TRUE
    /\ pc' = "AC3_return"
    /\ UNCHANGED <<neighbors, initial, domains, queue, step, ctx, stack,
                   solved, result, firstRun, target>>

-----------------------------------------------------------------------------
\* backtrack

\* A call frame of backtrack(csp): its argument (the object's identity and
\* its domains), and the loop state of `for value in sorted(csp.domains[var])`.
Frame(dom, id) == [csp |-> dom, id |-> id, var |-> None, values |-> <<>>]

Top == stack[Len(stack)]
Pop == SubSeq(stack, 1, Len(stack) - 1)

\* copy.deepcopy(csp), line 160: a new object, distinct from every model a
\* frame holds (a discarded copy's identity may be used again).
NewObject ==
    CHOOSE n \in 1..(Len(stack) + 1) :
        /\ \A i \in 1..Len(stack) : stack[i].id # n
        /\ \A m \in 1..(n - 1) : \E i \in 1..Len(stack) : stack[i].id = m

\* Lines 152-159: the entry of backtrack up to the head of the for loop.
BtEnter ==
    /\ pc = "backtrack"
    /\ LET csp == Top.csp
           var == select_unassigned_variable(csp)
       IN  IF is_solved(csp)
           THEN /\ solved' = TRUE
                /\ result' = csp
                /\ stack' = Pop
                /\ pc' = "bt_return"
           ELSE IF var = None
           THEN /\ solved' = FALSE
                /\ result' = NoResult
                /\ stack' = Pop
                /\ pc' = "bt_return"
           ELSE /\ stack' = [stack EXCEPT ![Len(stack)] =
                                [@ EXCEPT !.var = var, !.values = sorted(csp[var])]]
                /\ pc' = "bt_loop"
                /\ UNCHANGED <<solved, result>>
    /\ UNCHANGED <<neighbors, initial, domains, queue, step, ctx,
                   is_consistent, firstRun, target>>

\* Variant: `for value in csp.domains[var]`, the set iterated without
\* sorted().
BtTryUnsorted ==
    /\ pc = "bt_loop"
    /\ Top.values # <<>>
    /\ \E k \in 1..Len(Top.values) :
          /\ domains' = [Top.csp EXCEPT ![Top.var] = {Top.values[k]}]
          /\ stack' = [stack EXCEPT ![Len(stack)] =
                          [@ EXCEPT !.values = Without(@, k)]]
    /\ target' = NewObject
    /\ ctx' = "backtrack"
    /\ pc' = "AC3"
    /\ UNCHANGED <<neighbors, initial, queue, step, is_consistent, solved,
                   result, firstRun>>

\* Variant: `new_csp = csp`, the trial made on the caller's own model
\* instead of a deep copy.
BtTryNoCopy ==
    /\ pc = "bt_loop"
    /\ Top.values # <<>>
    /\ LET value == Head(Top.values)
       IN  /\ domains' = [Top.csp EXCEPT ![Top.var] = {value}]
           /\ stack' = InPlace([stack EXCEPT ![Len(stack)] =
                                   [@ EXCEPT !.values = Tail(@)]],
                               Top.id, domains')
    /\ target' = Top.id
    /\ ctx' = "backtrack"
    /\ pc' = "AC3"
    /\ UNCHANGED <<neighbors, initial, queue, step, is_consistent, solved,
                   result, firstRun>>

\* Lines 159-163: take the next value, deep-copy csp, collapse var to
\* set(value) and call AC3 on the copy.  set(value) is the set of the
\* characters of value: {value} for the one-character values of
\* parse_sudoku.  The frame's own csp is left as it is.
BtTry ==
    /\ pc = "bt_loop"
    /\ Top.values # <<>>
    /\ LET value == Head(Top.values)
       IN  /\ domains' = [Top.csp EXCEPT ![Top.var] = {value}]
           /\ stack' = [stack EXCEPT ![Len(stack)] = [@ EXCEPT !.values = Tail(@)]]
    /\ target' = NewObject
    /\ ctx' = "backtrack"
    /\ pc' = "AC3"
    /\ UNCHANGED <<neighbors, initial, queue, step, is_consistent, solved,
                   result, firstRun>>

\* Variant: an inconsistent AC3 makes backtrack return False at once
\* instead of going on with the for loop.
BtAfterAC3GiveUp ==
    /\ pc = "AC3_return"
    /\ ctx = "backtrack"
    /\ IF is_consistent
       THEN /\ stack' = Append(stack, Frame(domains, target))
            /\ pc' = "backtrack"
            /\ UNCHANGED <<solved, result>>
       ELSE /\ solved' = FALSE
            /\ result' = NoResult
            /\ stack' = Pop
            /\ pc' = "bt_return"
    /\ UNCHANGED <<neighbors, initial, domains, queue, step, ctx,
                   is_consistent, firstRun, target>>

\* Lines 163-165: AC3 returned to backtrack; recurse on the revised copy
\* when consistent, else go on with the for loop.
BtAfterAC3 ==
    /\ pc = "AC3_return"
    /\ ctx = "backtrack"
    /\ IF is_consistent
       THEN /\ stack' = Append(stack, Frame(domains, target))
            /\ pc' = "backtrack"
       ELSE /\ pc' = "bt_loop"
            /\ UNCHANGED stack
    /\ UNCHANGED <<neighbors, initial, domains, queue, step, ctx,
                   is_consistent, solved, result, firstRun, target>>

\* Variant: `return backtrack(revised_csp)`, whatever the recursive call
\* returned.
BtAfterRecursionReturnAlways ==
    /\ pc = "bt_return"
    /\ stack # <<>>
    /\ stack' = Pop
    /\ pc' = "bt_return"
    /\ UNCHANGED <<neighbors, initial, domains, queue, step, ctx,
                   is_consistent, solved, result, firstRun, target>>

\* Lines 165-167: the recursive call returned; `if result: return result`.
BtAfterRecursion ==
    /\ pc = "bt_return"
    /\ stack # <<>>
    /\ IF solved
       THEN /\ stack' = Pop
            /\ pc' = "bt_return"
       ELSE /\ pc' = "bt_loop"
            /\ UNCHANGED stack
    /\ UNCHANGED <<neighbors, initial, domains, queue, step, ctx,
                   is_consistent, solved, result, firstRun, target>>

\* Line 168: every value was tried, return False.
BtExhausted ==
    /\ pc = "bt_loop"
    /\ Top.values = <<>>
    /\ solved' = FALSE
    /\ result' = NoResult
    /\ stack' = Pop
    /\ pc' = "bt_return"
    /\ UNCHANGED <<neighbors, initial, domains, queue, step, ctx,
                   is_consistent, firstRun, target>>

-----------------------------------------------------------------------------
\* main

\* Variant: main without the is_solved test of line 204, calling backtrack
\* whenever the first pass was consistent.
MainAfterAC3NoSolvedCheck ==
    /\ pc = "AC3_return"
    /\ ctx = "main"
    /\ IF ~ is_consistent
       THEN /\ pc' = "done"
            /\ UNCHANGED stack
       ELSE /\ stack' = <<Frame(domains, target)>>
            /\ pc' = "backtrack"
    /\ UNCHANGED <<neighbors, initial, domains, queue, step, ctx,
                   is_consistent, solved, result, firstRun, target>>

\* Lines 198-209: AC3 returned to main.
MainAfterAC3 ==
    /\ pc = "AC3_return"
    /\ ctx = "main"
    /\ IF ~ is_consistent
       THEN /\ pc' = "done"
            /\ UNCHANGED <<stack, solved, result>>
       ELSE IF is_solved(domains)
       THEN /\ solved' = TRUE
            /\ result' = domains
            /\ pc' = "done"
            /\ UNCHANGED stack
       ELSE /\ stack' = <<Frame(domains, target)>>
            /\ pc' = "backtrack"
            /\ UNCHANGED <<solved, result>>
    /\ UNCHANGED <<neighbors, initial, domains, queue, step, ctx,
                   is_consistent, firstRun, target>>

\* Lines 209-214: backtrack returned to main.
MainAfterBacktrack ==
    /\ pc = "bt_return"
    /\ stack = <<>>
    /\ pc' = "done"
    /\ UNCHANGED <<neighbors, initial, domains, queue, step, ctx,
                   is_consistent, stack, solved, result, firstRun, target>>

\* main after parse_sudoku (line 193), about to call AC3(csp) at line 198.
Init ==
    /\ neighbors \in Topologies(Vars)
    /\ initial \in ParsedDomains(Vars)
    /\ domains = initial
    /\ queue = <<>>
    /\ step = 0
    /\ pc = "AC3"
    /\ ctx = "main"
    /\ is_consistent = FALSE
    /\ stack = <<>>
    /\ solved = FALSE
    /\ result = NoResult
    /\ firstRun = NoResult
    /\ target = 1

Next ==
    \/ AC3Init
    \/ AC3Step
    \/ AC3Return
    \/ MainAfterAC3
    \/ BtEnter
    \/ BtTry
    \/ BtAfterAC3
    \/ BtAfterRecursion
    \/ BtExhausted
    \/ MainAfterBacktrack

Spec == Init /\ [][Next]_vars

\* main's solve (lines 196-214) started on any model without an empty
\* domain.
InitSolveAny ==
    /\ neighbors \in Topologies(DirectVars)
    /\ initial \in NonEmptyDomains(DirectVars)
    /\ domains = initial
    /\ queue = <<>>
    /\ step = 0
    /\ pc = "AC3"
    /\ ctx = "main"
    /\ is_consistent = FALSE
    /\ stack = <<>>
    /\ solved = FALSE
    /\ result = NoResult
    /\ firstRun = NoResult
    /\ target = 1

SpecSolveAny == InitSolveAny /\ [][Next]_vars

\* The code is sequential: main takes its next step whenever it has one.
FairSpecSolveAny == SpecSolveAny /\ WF_vars(Next)

-----------------------------------------------------------------------------
\* AC3 called directly, twice in succession, on any model.

\* A caller's AC3(csp) on an arbitrary model.
InitAC3 ==
    /\ neighbors \in Topologies(DirectVars)
    /\ initial \in AnyDomains(DirectVars)
    /\ domains = initial
    /\ queue = <<>>
    /\ step = 0
    /\ pc = "AC3"
    /\ ctx = "first"
    /\ is_consistent = FALSE
    /\ stack = <<>>
    /\ solved = FALSE
    /\ result = NoResult
    /\ firstRun = NoResult
    /\ target = 1

\* The first call returned: keep what it left and call AC3(csp) again on
\* the same (revised) model.
AC3Again ==
    /\ pc = "AC3_return"
    /\ ctx = "first"
    /\ firstRun' = [flag |-> is_consistent, domains |-> domains]
    /\ ctx' = "second"
    /\ pc' = "AC3"
    /\ UNCHANGED <<neighbors, initial, domains, queue, step, is_consistent,
                   stack, solved, result, target>>

NextAC3 ==
    \/ AC3Init
    \/ AC3Step
    \/ AC3Return
    \/ AC3Again

SpecAC3 == InitAC3 /\ [][NextAC3]_vars

\* The code is sequential: it takes its next step whenever it has one.
FairSpecAC3 == SpecAC3 /\ WF_vars(NextAC3)

\* AC3 called once on any model, arcs taken from the worklist in any order.
NextAnyOrder ==
    \/ AC3Init
    \/ AC3StepAnyOrder
    \/ AC3Return

SpecAnyOrder == InitAC3 /\ [][NextAnyOrder]_vars

-----------------------------------------------------------------------------
\* backtrack called directly on any model.

InitBacktrack ==
    /\ neighbors \in Topologies(DirectVars)
    /\ initial \in AnyDomains(DirectVars)
    /\ domains = initial
    /\ queue = <<>>
    /\ step = 0
    /\ pc = "backtrack"
    /\ ctx = "direct"
    /\ is_consistent = FALSE
    /\ stack = <<Frame(initial, 1)>>
    /\ solved = FALSE
    /\ result = NoResult
    /\ firstRun = NoResult
    /\ target = 1

NextBacktrack ==
    \/ AC3Init
    \/ AC3Step
    \/ AC3Return
    \/ BtEnter
    \/ BtTry
    \/ BtAfterAC3
    \/ BtAfterRecursion
    \/ BtExhausted

SpecBacktrack == InitBacktrack /\ [][NextBacktrack]_vars

-----------------------------------------------------------------------------
\* Properties

\* Every value of every variable has a differing value in each neighbour.
ArcConsistent(nbr, dom) ==
    \A xi \in DOMAIN dom : \A xj \in nbr[xi] :
        \A x \in dom[xi] : \E y \in dom[xj] : y # x

\* Every variable has exactly one value.
FullyAssigned(dom) == \A v \in DOMAIN dom : Cardinality(dom[v]) = 1

\* No value of a variable occurs in a neighbour's domain.
NeighborsDiffer(nbr, dom) ==
    \A v \in DOMAIN dom : \A w \in nbr[v] : dom[v] \cap dom[w] = {}

\* Each variable's domain lies within its domain in `outer`.
Within(dom, outer) == \A v \in DOMAIN dom : dom[v] \subseteq outer[v]

\* Some complete assignment picks a value from each domain with all
\* neighbouring values different.
HasSolution(nbr, dom) ==
    \E a \in [DOMAIN dom -> Vals] :
        /\ \A v \in DOMAIN dom : a[v] \in dom[v]
        /\ \A v \in DOMAIN dom : \A w \in nbr[v] : a[v] # a[w]

\* backtrack, called directly, has returned to its caller.
BacktrackReturned == pc = "bt_return" /\ stack = <<>>

\* C1: whenever AC3 returns consistent, every value left in a variable's
\* domain has a differing value in the domain of each neighbour.
C1_ArcConsistentOnTrue ==
    (pc = "AC3_return" /\ is_consistent) => ArcConsistent(neighbors, domains)

\* C1 case: a first call returned consistent after removing values, with
\* some variable left undetermined.
C1_Witness ==
    /\ pc = "AC3_return" /\ ctx = "first" /\ is_consistent
    /\ domains # initial
    /\ \E v \in DOMAIN domains : Cardinality(domains[v]) > 1

\* C2: when main ends with a model, it is fully assigned, neighbouring
\* variables hold different values, and each value is from the variable's
\* initial domain.
C2_SolveSound ==
    (pc = "done" /\ solved) =>
        /\ FullyAssigned(result)
        /\ NeighborsDiffer(neighbors, result)
        /\ Within(result, initial)

\* C2 case: main ended with a model that backtracking produced.
C2_Witness == pc = "done" /\ solved /\ ctx = "backtrack"

\* C3: main ends with a fully-assigned model exactly when the initial model
\* admits a complete assignment with all neighbouring values different;
\* otherwise it reports no solution.
C3_SolveComplete ==
    pc = "done" =>
        /\ solved <=> HasSolution(neighbors, initial)
        /\ solved => FullyAssigned(result)

\* C3 case: a solution is being returned through a frame whose earlier
\* candidate value had failed.
C3_Witness ==
    /\ pc = "bt_return" /\ solved
    /\ \E i \in 1..Len(stack) :
          Len(stack[i].values) + 2 <= Cardinality(stack[i].csp[stack[i].var])

\* What backtrack owes its caller: a fully-assigned model with neighbouring
\* values different, or failure when the model it was given admits none.
BacktrackContract ==
    IF solved
    THEN FullyAssigned(result) /\ NeighborsDiffer(neighbors, result)
    ELSE ~ HasSolution(neighbors, initial)

SecondReturned == pc = "AC3_return" /\ ctx = "second"

\* C5 as stated: the second AC3 call leaves every domain as the first call
\* left it, whatever flag the first call returned.
C5_AsStated == SecondReturned => domains = firstRun.domains

\* C5 amended: when the first AC3 call returned consistent, the second call
\* leaves every domain as the first left it (and returns consistent too).
C5_IdempotentOnTrue ==
    (SecondReturned /\ firstRun.flag) =>
        (domains = firstRun.domains /\ is_consistent)

\* C5 case: the first call shrank some domain and returned consistent, and
\* the second call has returned.
C5_Witness ==
    SecondReturned /\ firstRun.flag /\ firstRun.domains # initial

\* The complete assignments drawn from the domains with all neighbouring
\* values different.
Solutions(nbr, dom) ==
    {a \in [DOMAIN dom -> Vals] :
        /\ \A v \in DOMAIN dom : a[v] \in dom[v]
        /\ \A v \in DOMAIN dom : \A w \in nbr[v] : a[v] # a[w]}

\* C6: whatever order the sets are iterated in, a solve started from a given
\* initial model ends with the one outcome the model determines: the same
\* value for every variable, or no solution.
C6_Deterministic ==
    pc = "done" => [solved |-> solved, result |-> result] = main(neighbors, initial)

\* C6 case: backtracking returned one of several solutions of a model in
\* which some variable has two neighbours.
C6_Witness ==
    /\ pc = "done" /\ solved /\ ctx = "backtrack"
    /\ Cardinality(Solutions(neighbors, initial)) > 1
    /\ \E v \in DOMAIN neighbors : Cardinality(neighbors[v]) > 1

\* Every frame's model lies within its caller's, the root's within the
\* initial model, and the copy under propagation within its frame's model.
SearchPathNested ==
    /\ \A i \in 1..Len(stack) :
          Within(stack[i].csp, IF i = 1 THEN initial ELSE stack[i - 1].csp)
    /\ (ctx = "backtrack" /\ pc \in {"AC3", "AC3_loop", "AC3_return"})
          => Within(domains, Top.csp)

\* C7: every Revise and every search step (copy, collapse, propagation)
\* leaves each domain a subset of what it was, and along the search path
\* each model's domains are subsets of the parent model's.
C7_Monotone ==
    [][ /\ (pc = "AC3_loop" => Within(domains', domains))
        /\ ((pc = "bt_loop" /\ pc' = "AC3") => Within(domains', Top.csp))
        /\ SearchPathNested' ]_vars

\* C7 case: in a nested call of backtrack, propagation after a collapse has
\* shrunk the domain of another variable of the copy.
C7_Witness ==
    /\ pc = "AC3_return" /\ ctx = "backtrack" /\ Len(stack) >= 2
    /\ \E v \in DOMAIN domains : v # Top.var /\ domains[v] # Top.csp[v]

\* C8: every call of AC3 returns: the loop ends with the queue empty or at
\* an emptied domain.
C8_AC3Terminates == (pc = "AC3_loop") ~> (pc = "AC3_return")

\* C8 case: AC3 returned after processing re-enqueued arcs.
C8_Witness ==
    pc = "AC3_return" /\ step > Cardinality(Arcs(neighbors))

\* C9: with the arcs taken from the worklist in any order, AC3 returns the
\* flag of the FIFO run and, when consistent, the FIFO run's domains.
C9_OrderIndependent ==
    pc = "AC3_return" =>
        LET fifo == AC3(neighbors, initial)
        IN  /\ is_consistent = fifo.flag
            /\ is_consistent => domains = fifo.domains

\* C9 case: a run that re-enqueued arcs returned consistent with domains
\* shrunk.
C9_Witness ==
    /\ pc = "AC3_return" /\ is_consistent
    /\ domains # initial
    /\ step > Cardinality(Arcs(neighbors))

\* Two neighbouring variables start with the same singleton domain.
ConflictingClues ==
    \E v \in DOMAIN initial : \E w \in neighbors[v] :
        Cardinality(initial[v]) = 1 /\ initial[v] = initial[w]

\* C10: with two equal neighbouring clues, the first AC3 pass returns
\* inconsistent with an emptied domain and main ends with no solution,
\* backtrack never being called.
C10_ConflictCaught ==
    ConflictingClues =>
        /\ stack = <<>> /\ ctx = "main" /\ ~ solved
        /\ pc \in {"AC3", "AC3_loop", "AC3_return", "done"}
        /\ pc \in {"AC3_return", "done"} =>
              (~ is_consistent /\ \E v \in DOMAIN domains : domains[v] = {})

\* C10 case: main has ended on a model with two equal neighbouring clues.
C10_Witness == ConflictingClues /\ pc = "done"

-----------------------------------------------------------------------------
\* Control flow of main and backtrack

\* Some domain has a size other than 1: `not is_solved(csp)`, line 204.
SomeNotSingleton(dom) == \E v \in DOMAIN dom : Cardinality(dom[v]) # 1

FirstPassReturned == pc = "AC3_return" /\ ctx = "main"

\* One step of the solve respects the control flow of main (lines 196-214)
\* and of the trial loop (lines 159-167).
ControlFlowStep ==
    \* the first AC3 runs on the original model, before any search
    /\ (pc = "AC3" /\ ctx = "main") =>
           (domains = initial /\ stack = <<>> /\ step = 0)
    /\ pc = "AC3" => pc' = "AC3_loop"
    \* main never calls AC3 a second time
    /\ ctx = "backtrack" => ctx' = "backtrack"
    \* AC3 is entered only by a trial assignment, which uses up one value
    /\ pc' = "AC3" =>
           /\ pc = "bt_loop"
           /\ ctx' = "backtrack"
           /\ Len(stack') = Len(stack)
           /\ Top.values = <<Head(Top.values)>> \o stack'[Len(stack)].values
    \* every trial assignment enters AC3
    /\ (pc = "bt_loop" /\ Top.values # <<>>) => pc' = "AC3"
    \* the root call of backtrack is made exactly after a consistent first
    \* pass that left some domain with a size other than 1
    /\ (stack = <<>> /\ stack' # <<>>) <=>
           (FirstPassReturned /\ is_consistent /\ SomeNotSingleton(domains))
    /\ (stack = <<>> /\ stack' # <<>>) => pc' = "backtrack"
    \* a first pass that leaves only singletons ends the solve: Solved
    /\ (FirstPassReturned /\ is_consistent /\ ~ SomeNotSingleton(domains)) =>
           (pc' = "done" /\ solved' /\ result' = domains /\ stack' = <<>>)
    \* an inconsistent first pass ends the solve without a solution
    /\ (FirstPassReturned /\ ~ is_consistent) =>
           (pc' = "done" /\ ~ solved' /\ stack' = <<>>)

\* C11: main runs AC3 once on the original model before anything else;
\* backtrack is invoked if and only if that first pass returned consistent
\* and left some domain with a size other than 1; a first pass leaving only
\* singletons gives Solved with no backtracking; inside the search AC3 is
\* invoked exactly once per trial assignment.
C11_ControlFlow == [][ControlFlowStep]_vars

\* A trial assignment made inside a recursive call has had its AC3 run.
C11_Witness ==
    /\ pc = "AC3_return"
    /\ ctx = "backtrack"
    /\ Len(stack) = 2
    /\ Len(Top.values) < Cardinality(Top.csp[Top.var]) - 1

-----------------------------------------------------------------------------
\* Failure of a branch

TrialFailed == pc = "AC3_return" /\ ctx = "backtrack" /\ ~ is_consistent

\* One step of the search treats a failed branch as a local outcome.
BranchFailureStep ==
    \* an inconsistent AC3 on a clone: the clone is dropped, no frame is
    \* touched, and the for loop of the calling frame goes on
    /\ TrialFailed => (pc' = "bt_loop" /\ stack' = stack /\ UNCHANGED <<solved, result>>)
    \* a failed recursive call: the for loop of the caller goes on
    /\ (pc = "bt_return" /\ ~ solved /\ stack # <<>>) =>
           (pc' = "bt_loop" /\ stack' = stack)
    \* going on means trying the next value of the same variable on a copy
    \* of the frame's own model
    /\ (pc = "bt_loop" /\ Top.values # <<>>) =>
           /\ domains' = [Top.csp EXCEPT ![Top.var] = {Head(Top.values)}]
           /\ stack'[Len(stack)].var = Top.var
           /\ stack'[Len(stack)].values = Tail(Top.values)
           /\ stack'[Len(stack)].csp = Top.csp
    \* a call returns failure only with all its candidates tried
    /\ (Len(stack') < Len(stack) /\ ~ solved') => Top.values = <<>>
    \* the solve ends in failure only with no call left
    /\ (pc' = "done" /\ pc # "done" /\ ctx = "backtrack" /\ ~ solved') =>
           stack = <<>>

\* C12: when AC3 on a trial clone returns inconsistent, backtrack discards
\* the clone and goes on to the next candidate value of the same variable;
\* a branch failure never ends the solve while an untried candidate remains
\* at an ancestor decision point.
C12_FailureIsLocal == [][BranchFailureStep]_vars

\* A trial failed inside a recursive call that has candidates left.
C12_Witness ==
    /\ TrialFailed
    /\ Len(stack) >= 2
    /\ Top.values # <<>>

-----------------------------------------------------------------------------
\* Models handed to backtrack

\* backtrack is being entered: the frame on top is a call about to run
\* lines 152-157.
BacktrackInvoked == pc = "backtrack" /\ stack # <<>>

NoEmptyDomain(dom) == \A v \in DOMAIN dom : dom[v] # {}

\* C13: at every invocation of backtrack reachable from main, root or
\* recursive, no variable has an empty domain; so
\* select_unassigned_variable finds a variable whenever the model is not
\* fully assigned, and the `var is None` branch is not taken.
C13_NoEmptyDomainAtCall ==
    BacktrackInvoked =>
        /\ NoEmptyDomain(Top.csp)
        /\ ~ is_solved(Top.csp) => select_unassigned_variable(Top.csp) # None

\* A recursive call on a model that is not fully assigned.
C13_Witness ==
    /\ BacktrackInvoked
    /\ Len(stack) >= 2
    /\ ~ is_solved(Top.csp)

-----------------------------------------------------------------------------
\* Early exit of AC3

SomeEmptyDomain(dom) == \E v \in DOMAIN dom : dom[v] = {}

\* The flag AC3 returns tells whether a domain is empty.
FlagTellsEmptiness == ~ is_consistent <=> SomeEmptyDomain(domains)

\* One step of a solve started on non-empty domains, seen from AC3.
EarlyExitStep ==
    \* every call of AC3 starts, and every iteration of its loop starts,
    \* with no domain empty
    /\ pc \in {"AC3", "AC3_loop"} => ~ SomeEmptyDomain(domains)
    /\ pc = "AC3_return" => FlagTellsEmptiness
    /\ pc' = "AC3_return" => FlagTellsEmptiness'
    \* the iteration that empties a domain is the last one: the arc is
    \* popped, nothing is appended, AC3 returns False
    /\ (pc = "AC3_loop" /\ SomeEmptyDomain(domains')) =>
           /\ pc' = "AC3_return"
           /\ ~ is_consistent'
           /\ queue' = Tail(queue)
           /\ domains' = Revise(domains, Head(queue)[1], Head(queue)[2])
    \* after the return the rest of the worklist is left unprocessed
    /\ pc = "AC3_return" => UNCHANGED <<domains, queue, step>>

\* C14: started from a model whose domains are all non-empty, AC3 returns
\* inconsistent if and only if some domain is empty at return; it returns
\* at the first Revise that empties Xi's domain, without processing any arc
\* still in the worklist and without enqueuing anything.
C14_EarlyExit == [][EarlyExitStep]_vars

\* AC3 returned False with arcs left in the worklist.
C14_Witness ==
    /\ pc = "AC3_return"
    /\ ~ is_consistent
    /\ queue # <<>>
    /\ NoEmptyDomain(initial)

-----------------------------------------------------------------------------
\* Re-enqueue rule

\* The arcs a loop iteration appended behind the rest of the worklist.
Appended == SubSeq(queue', Len(queue), Len(queue'))

SeqToSet(q) == {q[k] : k \in 1..Len(q)}

\* One iteration of the while loop on the popped arc (xi, xj).
RequeueStep ==
    (pc = "AC3_loop" /\ queue # <<>>) =>
        LET xi == Head(queue)[1]
            xj == Head(queue)[2]
            expected == {<<xk, xi>> : xk \in neighbors[xi] \ {xj}}
        IN  \* the arc is popped and the rest of the worklist kept in order
            /\ Len(queue') >= Len(queue) - 1
            /\ SubSeq(queue', 1, Len(queue) - 1) = Tail(queue)
            \* Revise touches the domain of xi only, and only shrinks it
            /\ \A v \in DOMAIN domains : v # xi => domains'[v] = domains[v]
            /\ domains'[xi] \subseteq domains[xi]
            \* arcs are appended only after a removal that left xi non-empty
            /\ Appended # <<>> =>
                   (domains'[xi] # domains[xi] /\ domains'[xi] # {})
            \* and then exactly the arcs (xk, xi), xk # xj, once each
            /\ (domains'[xi] # domains[xi] /\ domains'[xi] # {}) =>
                   /\ SeqToSet(Appended) = expected
                   /\ Len(Appended) = Cardinality(expected)
            \* no removal: nothing enqueued, no domain changed
            /\ ToRemove(domains, xi, xj) = {} <=> domains' = domains
            /\ domains' = domains => queue' = Tail(queue)

\* C15: after popping arc (Xi, Xj), AC3 appends arcs only if Revise removed
\* a value from Xi and Xi's domain is still non-empty, and then exactly the
\* arcs (Xk, Xi) for every neighbor Xk of Xi other than Xj; a Revise that
\* changes nothing enqueues nothing and changes no domain.
C15_RequeueRule == [][RequeueStep]_vars

\* More arcs have gone through the worklist than it started with: some
\* iteration re-enqueued.
C15_Witness ==
    /\ pc = "AC3_loop"
    /\ step + Len(queue) > Cardinality(Arcs(neighbors))
    /\ queue # <<>>

-----------------------------------------------------------------------------
\* Branch isolation

InAC3 == pc \in {"AC3", "AC3_loop", "AC3_return"}

\* The live models are the models of the active calls of backtrack and,
\* while a trial runs, the clone AC3 works on.  They are distinct objects.
NoAliasing ==
    /\ \A i, j \in 1..Len(stack) : stack[i].id = stack[j].id => i = j
    /\ (InAC3 /\ ctx = "backtrack") =>
           \A i \in 1..Len(stack) : stack[i].id # target

\* One step of the search leaves the model of every active call alone.
IsolationStep ==
    /\ NoAliasing
    /\ NoAliasing'
    \* a call that stays active keeps its model, domain by domain
    /\ \A i \in 1..Len(stack) :
           i <= Len(stack') =>
               (stack'[i].csp = stack[i].csp /\ stack'[i].id = stack[i].id)
    \* the trial collapses the chosen variable in the clone only
    /\ (pc = "bt_loop" /\ Top.values # <<>>) =>
           /\ \A v \in DOMAIN domains :
                  v # Top.var => domains'[v] = Top.csp[v]
           /\ domains'[Top.var] = {Head(Top.values)}
    \* a call that returns a solution it found itself returns its own,
    \* unchanged model; any other return passes the result on
    /\ (Len(stack') < Len(stack)) =>
           \/ pc = "backtrack" /\ solved' /\ result' = Top.csp
           \/ pc = "backtrack" /\ ~ solved' /\ result' = NoResult
           \/ pc = "bt_loop" /\ ~ solved' /\ result' = NoResult
           \/ pc = "bt_return" /\ solved /\ UNCHANGED <<solved, result>>

\* C16: a trial assignment and its propagation change only the domains of
\* the clone made for that trial; from the call of backtrack(csp) to its
\* return, with a solution or with failure, every domain of csp stays as it
\* was, and no two live models share a domain set.
C16_BranchIsolation == [][IsolationStep]_vars

\* Propagation on a clone, inside a recursive call, removed values that
\* the caller's model still has.
C16_Witness ==
    /\ pc = "AC3_return"
    /\ ctx = "backtrack"
    /\ Len(stack) >= 2
    /\ \E v \in DOMAIN domains : v # Top.var /\ domains[v] # Top.csp[v]

-----------------------------------------------------------------------------
\* Depth of the search

\* The number of variables still open: domain size greater than 1.
Unassigned(dom) == Cardinality({v \in DOMAIN dom : Cardinality(dom[v]) > 1})

\* The recursive calls below the root call of backtrack.
RecursionDepth == IF stack = <<>> THEN 0 ELSE Len(stack) - 1

DepthBounded ==
    \* each recursive call got a model with fewer open variables than its
    \* caller's
    /\ \A i \in 2..Len(stack) :
           Unassigned(stack[i].csp) < Unassigned(stack[i - 1].csp)
    /\ RecursionDepth <= Cardinality(DOMAIN initial)

\* C17: each recursive call of backtrack receives a model with strictly
\* fewer variables of domain size greater than 1 than its caller's model,
\* so the recursion depth never exceeds the number of variables, and the
\* search terminates.
C17_DepthBoundedAndTerminates == [] DepthBounded /\ <> (pc = "done")

\* The recursion is as deep as there are variables: one decision each.
C17_Witness ==
    /\ pc = "backtrack"
    /\ RecursionDepth = Cardinality(DOMAIN initial)

-----------------------------------------------------------------------------
\* Minimum remaining values

\* What the selection owes its caller, for the model dom and the answer
\* var; csp.variables is in ascending order of the variables' numbers.
MRVContract(dom, var) ==
    LET open == {v \in DOMAIN dom : Cardinality(dom[v]) > 1}
    IN  /\ var = None <=> open = {}
        /\ var # None =>
               /\ var \in open
               /\ \A w \in open : Cardinality(dom[var]) <= Cardinality(dom[w])
               /\ \A w \in open :
                      Cardinality(dom[w]) = Cardinality(dom[var]) => var <= w

\* C18: select_unassigned_variable returns a variable whose domain size is
\* greater than 1 and no larger than that of any other such variable; among
\* several of minimum size, the earliest in the variables sequence; None
\* exactly when no variable has domain size greater than 1; never a
\* variable with an empty or singleton domain.
C18_MRVSelection ==
    /\ BacktrackInvoked =>
           MRVContract(Top.csp, select_unassigned_variable(Top.csp))
    /\ pc = "bt_loop" =>
           /\ MRVContract(Top.csp, Top.var)
           /\ Cardinality(Top.csp[Top.var]) > 1

\* The first variable was passed over for a smaller domain, and two
\* variables tie for the minimum.
C18_Witness ==
    /\ pc = "bt_loop"
    /\ Cardinality(Top.csp[1]) > Cardinality(Top.csp[Top.var])
    /\ \E w \in DOMAIN Top.csp :
           w # Top.var /\ Cardinality(Top.csp[w]) = Cardinality(Top.csp[Top.var])

-----------------------------------------------------------------------------
\* Models without any assigned variable

AllAtLeastTwo(dom) == \A v \in DOMAIN dom : Cardinality(dom[v]) >= 2

\* The first pass of main, while it runs and when it returns, has removed
\* nothing, and it returns True.
FirstPassRemovesNothing ==
    /\ (ctx = "main" /\ InAC3) => domains = initial
    /\ FirstPassReturned => is_consistent

SolvedValid ==
    /\ solved
    /\ FullyAssigned(result)
    /\ NeighborsDiffer(neighbors, result)
    /\ Within(result, initial)

\* The claim as worded: with every domain of size 2 or more, the search
\* always ends with a valid fully-assigned model.
C19_AsStated ==
    AllAtLeastTwo(initial) =>
        /\ FirstPassRemovesNothing
        /\ pc = "done" => SolvedValid

\* C19: on a model where every domain has at least two values, AC3 removes
\* no value and returns consistent; the backtracking search that follows
\* ends with a fully-assigned model whose neighboring values all differ
\* whenever the model admits one, and with no solution otherwise.
C19_NoReductionThenSearch ==
    AllAtLeastTwo(initial) =>
        /\ FirstPassRemovesNothing
        /\ pc = "done" =>
               IF HasSolution(neighbors, initial) THEN SolvedValid ELSE ~ solved

\* A search on constrained variables, none assigned at the start, found a
\* solution.
C19_Witness ==
    /\ AllAtLeastTwo(initial)
    /\ \A v \in DOMAIN neighbors : neighbors[v] # {}
    /\ pc = "done"
    /\ solved

-----------------------------------------------------------------------------
\* Solutions under propagation

\* The complete assignment a picks its values from the domains dom.
DrawnFrom(a, dom) == \A v \in DOMAIN dom : a[v] \in dom[v]

\* C20: at every step of AC3, every complete assignment with all
\* neighboring values different that was drawn from the domains at the
\* start is still drawn from the current domains: Revise removes no value
\* that occurs in one.  So AC3 returns inconsistent only for models that
\* have no such assignment.
C20_SolutionsPreserved ==
    /\ \A a \in Solutions(neighbors, initial) : DrawnFrom(a, domains)
    /\ (pc = "AC3_return" /\ ~ is_consistent) =>
           Solutions(neighbors, initial) = {}

\* AC3 removed values from a model that has solutions, and returned True.
C20_Witness ==
    /\ pc = "AC3_return"
    /\ is_consistent
    /\ domains # initial
    /\ Solutions(neighbors, initial) # {}

====
